---- MODULE Spec2Model ----
(***************************************************************************)
(* A model of package logger (logger.go): the process-wide logger state,   *)
(* InitLogger, CloseLogger, the ten leveled logging operations and         *)
(* RotateLogFile, over a small file system (directories, directory         *)
(* entries, inodes, open-file handles) and a console.                      *)
(***************************************************************************)
EXTENDS Integers, Sequences, FiniteSets, TLC

(***************************************************************************)
(* Bounds of the runs explored.  Spec draws the calls from the full input  *)
(* sets; SpecRotate draws them from smaller sets and runs longer.          *)
(***************************************************************************)
\* Spec: lines the console may hold, and files the process may open.
MaxLines == 1
MaxHandles == 2
\* SpecRotate: lines the console may hold, and files the process may open.
MaxRotLines == 2
MaxRotHandles == 3
\* The clock, in whole seconds, runs from 0 to MaxClock.  Calls made with no
\* tick between them fall in the same second.
MaxClock == 1

(***************************************************************************)
(* Log levels (logger.go 26-32).                                           *)
(***************************************************************************)
LevelDebug == 0
LevelInfo == 1
LevelWarning == 2
LevelError == 3
LevelFatal == 4
Levels == LevelDebug..LevelFatal

(***************************************************************************)
(* Values, strings and paths.                                              *)
(*                                                                         *)
(* A string is a sequence of tokens, "" is <<>>.  An argument of a         *)
(* logging call is a record saying whether its Go type is string, and its  *)
(* textual form (a string).  A path is a string whose first token is the  *)
(* directory part (with its separator) and whose last token is the         *)
(* extension.                                                              *)
(***************************************************************************)
Str(s) == [str |-> TRUE, text |-> s]
Num(s) == [str |-> FALSE, text |-> s]

\* The file name the demo program passes (demo.go 12).
DemoLog == <<"logs/", "demo", ".log">>
\* The file names InitLogger is called with.
FileNames == {<<>>, DemoLog}

\* filepath.Dir of a file name.
Dir(name) == name[1]
\* filepath.Split: the directory part and the file part.
Split(name) == <<SubSeq(name, 1, 1), Tail(name)>>
\* filepath.Ext: the last token, when it is a suffix starting at a dot.
Ext(filename) ==
    IF Len(filename) > 1 /\ filename[Len(filename)] \in {".log"}
    THEN <<filename[Len(filename)]>> ELSE <<>>
\* strings.TrimSuffix.
TrimSuffix(s, suffix) ==
    IF Len(suffix) <= Len(s) /\ SubSeq(s, Len(s) - Len(suffix) + 1, Len(s)) = suffix
    THEN SubSeq(s, 1, Len(s) - Len(suffix)) ELSE s
\* time.Now().Format("20060102-150405"): the second, as text.
Stamps == <<"20230308-153045", "20230308-153046", "20230308-153047",
            "20230308-153048", "20230308-153049">>
TimeFormat(now) == Stamps[now + 1]
\* The archive name RotateLogFile derives from the log file's name.
NewPath(name, now) ==
    LET dir == Split(name)[1]
        filename == Split(name)[2]
        ext == Ext(filename)
        baseFilename == TrimSuffix(filename, ext)
        newFilename == baseFilename \o <<"-", TimeFormat(now)>> \o ext
    IN  dir \o newFilename

(***************************************************************************)
(* fmt.Sprint and fmt.Sprintf.                                             *)
(***************************************************************************)
\* Sprint: a space is added between operands when neither is a string.
RECURSIVE Sprint(_)
Sprint(v) ==
    IF Len(v) = 0 THEN <<>>
    ELSE IF Len(v) = 1 THEN v[1].text
    ELSE LET n == Len(v)
             sep == IF ~v[n - 1].str /\ ~v[n].str THEN <<" ">> ELSE <<>>
         IN  Sprint(SubSeq(v, 1, n - 1)) \o sep \o v[n].text

\* Sprintf: each %v verb takes the next operand; other tokens are copied.
RECURSIVE Sprintf(_, _)
Sprintf(format, v) ==
    IF Len(format) = 0
    THEN IF Len(v) = 0 THEN <<>> ELSE <<"%!(EXTRA)">>
    ELSE IF format[1] = "%v"
         THEN IF Len(v) = 0
              THEN <<"%!v(MISSING)">> \o Sprintf(Tail(format), v)
              ELSE v[1].text \o Sprintf(Tail(format), Tail(v))
         ELSE <<format[1]>> \o Sprintf(Tail(format), v)

(***************************************************************************)
(* Source positions and the call stack.                                    *)
(***************************************************************************)
Frame(file, line) == [file |-> file, line |-> line]
LoggerGo == <<"logger/", "logger.go">>
LogGo == <<"log/", "log.go">>
DemoGo == <<"demo/", "demo.go">>
\* The place of the demo program that calls the package (demo.go 20).
CallSites == {Frame(DemoGo, 20)}
\* filepath.Base.
Base(file) == file[Len(file)]
\* runtime.Caller(skip) on a stack whose first frame is the running function.
Caller(stack, skip) ==
    IF skip + 1 <= Len(stack)
    THEN [ok |-> TRUE, file |-> stack[skip + 1].file, line |-> stack[skip + 1].line]
    ELSE [ok |-> FALSE, file |-> <<"???">>, line |-> 0]
\* The line of the leveled operation that calls logWithCallerInfo.
WrapperLine(level, formatted) ==
    IF formatted
    THEN CASE level = LevelDebug -> 162 [] level = LevelInfo -> 172
           [] level = LevelWarning -> 182 [] level = LevelError -> 192
           [] OTHER -> 203
    ELSE CASE level = LevelDebug -> 157 [] level = LevelInfo -> 167
           [] level = LevelWarning -> 177 [] level = LevelError -> 187
           [] OTHER -> 197

(***************************************************************************)
(* Package log: a Logger is a writer, a prefix and flags; a line is the    *)
(* sequence of its fields.                                                 *)
(***************************************************************************)
Stdout == 0
Stderr == -1
Flags == {"Ldate", "Ltime", "Lshortfile"}
PrefixField(p) == [kind |-> "prefix", text |-> <<p>>, n |-> 0]
\* The digits of the date and of the time of day are not modelled.
DateField(now) == [kind |-> "date", text |-> <<"2023/03/08">>, n |-> 0]
TimeField(now) == [kind |-> "time", text |-> <<"15:30:45">>, n |-> 0]
LocField(file, line) == [kind |-> "loc", text |-> <<file>>, n |-> line]
MsgField(text) == [kind |-> "msg", text |-> text, n |-> 0]

NilLogger == [nil |-> TRUE, out |-> <<>>, prefix |-> "", flags |-> {}]
\* log.New.
NewLogger(out, prefix, flags) ==
    [nil |-> FALSE, out |-> out, prefix |-> prefix, flags |-> flags]
LevelPrefix(level) ==
    CASE level = LevelDebug -> "[DEBUG] " [] level = LevelInfo -> "[INFO] "
      [] level = LevelWarning -> "[WARN] " [] level = LevelError -> "[ERROR] "
      [] OTHER -> "[FATAL] "
\* The line (*log.Logger).Printf and Print write for message s: the prefix,
\* then date, time and the short file:line of the caller of Printf, as the
\* flags ask, then the message.  stack is the stack at the call of Printf.
LoggerLine(l, now, stack, s) ==
    LET c == Caller(<<Frame(LogGo, 0), Frame(LogGo, 0)>> \o stack, 2)
    IN  <<PrefixField(l.prefix)>>
        \o (IF "Ldate" \in l.flags THEN <<DateField(now)>> ELSE <<>>)
        \o (IF "Ltime" \in l.flags THEN <<TimeField(now)>> ELSE <<>>)
        \o (IF "Lshortfile" \in l.flags
            THEN <<LocField(Base(c.file), c.line)>> ELSE <<>>)
        \o s

(***************************************************************************)
(* The file system: existing directories, directory entries (file name to  *)
(* inode), the lines of each inode, and the open-file handles.             *)
(***************************************************************************)
\* A rename that copies: the entry at the old name stays.
RenameKeepsOld(d, old, new) ==
    [p \in DOMAIN d \cup {new} |-> IF p = new THEN d[old] ELSE d[p]]
\* os.Rename: the entry moves, replacing an entry at the new name.
Rename(d, old, new) ==
    [p \in (DOMAIN d \ {old}) \cup {new} |-> IF p = new THEN d[old] ELSE d[p]]
\* os.OpenFile with O_CREATE: the directory entries and inodes afterwards,
\* and the inode opened; trunc is O_TRUNC.
OpenFile(d, cnt, name, trunc) ==
    IF name \in DOMAIN d
    THEN [fs |-> d, ino |-> d[name],
          content |-> IF trunc THEN [cnt EXCEPT ![d[name]] = <<>>] ELSE cnt]
    ELSE [fs |-> [p \in DOMAIN d \cup {name} |->
                     IF p = name THEN Len(cnt) + 1 ELSE d[p]],
          ino |-> Len(cnt) + 1,
          content |-> Append(cnt, <<>>)]
\* (*os.File).Close; closing a closed file returns an error and changes nothing.
CloseFile(hs, h) == [hs EXCEPT ![h].closed = TRUE]
\* A write succeeds on the console and on an open file.
WriterOk(hs, w) == w \in {Stdout, Stderr} \/ ~hs[w].closed
\* io.MultiWriter: the writers are written in order, up to the first error.
Written(hs, out) ==
    {out[i] : i \in {j \in 1..Len(out) : \A k \in 1..j : WriterOk(hs, out[k])}}
\* The console and the inodes after logger l writes line.
Write(l, hs, con, cnt, line) ==
    LET ws == Written(hs, l.out)
    IN  [console |-> IF Stdout \in ws THEN Append(con, line) ELSE con,
         content |-> [i \in DOMAIN cnt |->
                        IF \E w \in ws : w > 0 /\ hs[w].ino = i
                        THEN Append(cnt[i], line) ELSE cnt[i]]]

(***************************************************************************)
(* The state of the process.                                               *)
(***************************************************************************)
VARIABLES
    currentLevel,   \* var currentLevel
    loggers,        \* debugLogger .. fatalLogger, by level
    std,            \* the default logger of package log
    logFile,        \* var logFile: 0 is nil, else a handle
    handles,        \* the *os.File values created so far: name, inode, closed
    fs,             \* directory entries: file name -> inode
    dirs,           \* the directories that exist
    content,        \* the lines of each inode
    console,        \* the lines written to os.Stdout
    clock,          \* the local clock, in seconds
    pc,             \* "running", "exited" (os.Exit) or "panicked"
    \* What an observer of the calls has seen:
    ret,            \* the last call made and what it returned
    everInit,       \* InitLogger has been called
    afterClose,     \* CloseLogger closed an open file, no InitLogger since
    renameFailed,   \* RotateLogFile failed at os.Rename, no InitLogger since
    rot             \* RotateLogFile rotated and returned nil, and no InitLogger,
                    \* CloseLogger or RotateLogFile followed

prog == <<currentLevel, loggers, std, logFile, handles, fs, dirs, content,
          console, clock, pc>>
seen == <<ret, everInit, afterClose, renameFailed, rot>>
vars == <<prog, seen>>

NoRet ==
    [op |-> "none", err |-> "nil", level |-> LevelInfo, formatted |-> FALSE,
     args |-> <<>>, site |-> Frame(<<>>, 0), emitted |-> 0, panicked |-> FALSE,
     rotated |-> FALSE]

Init ==
    /\ currentLevel = LevelInfo
    /\ loggers = [l \in Levels |-> NilLogger]
    /\ std = NewLogger(<<Stderr>>, "", {"Ldate", "Ltime"})
    /\ logFile = 0
    /\ handles = <<>>
    /\ fs = <<>>
    /\ dirs = {}
    /\ content = <<>>
    /\ console = <<>>
    /\ clock = 0
    /\ pc = "running"
    /\ ret = NoRet
    /\ everInit = FALSE
    /\ afterClose = FALSE
    /\ renameFailed = FALSE
    /\ rot = FALSE

(***************************************************************************)
(* InitLogger(level, logToFile, logFileName).                              *)
(***************************************************************************)
\* The writers of the loggers InitLogger builds (logger.go 56-86).
InitWriters(withFile, f) == IF withFile THEN <<Stdout, f>> ELSE <<Stdout>>

\* The five loggers and the default logger are rebuilt (logger.go 88-98).
InitLoggers(out) ==
    /\ loggers' = [l \in Levels |-> NewLogger(out, LevelPrefix(l), Flags)]
    /\ std' = NewLogger(out, "[LOG] ", Flags)

InitSeen(level, err) ==
    /\ ret' = [NoRet EXCEPT !.op = "Init", !.err = err, !.level = level]
    /\ everInit' = TRUE
    /\ afterClose' = FALSE
    /\ renameFailed' = FALSE
    /\ rot' = FALSE

\* os.MkdirAll (tried when the directory is missing) and os.OpenFile each
\* succeed or fail; a step that is not reached has no outcome to choose.
InitLogger(level, logToFile, name) ==
    /\ pc = "running"
    /\ currentLevel' = level
    /\ UNCHANGED <<console, clock, pc>>
    /\ IF logToFile /\ name # <<>>
       THEN \E mkdirOk \in BOOLEAN, openOk \in BOOLEAN :
              LET missing == Dir(name) \notin dirs
                  dirs1 == IF missing /\ mkdirOk THEN dirs \cup {Dir(name)} ELSE dirs
              IN  IF missing /\ ~mkdirOk
                  THEN \* os.MkdirAll failed
                       /\ openOk
                       /\ UNCHANGED <<loggers, std, logFile, handles, fs, dirs, content>>
                       /\ InitSeen(level, "mkdir")
                  ELSE IF ~openOk
                  THEN \* os.OpenFile failed: logFile is assigned nil
                       /\ mkdirOk
                       /\ logFile' = 0
                       /\ dirs' = dirs1
                       /\ UNCHANGED <<loggers, std, handles, fs, content>>
                       /\ InitSeen(level, "open")
                  ELSE /\ mkdirOk
                       /\ LET o == OpenFile(fs, content, name, FALSE)
                          IN  /\ fs' = o.fs
                              /\ content' = o.content
                              /\ handles' = Append(handles,
                                     [name |-> name, ino |-> o.ino, closed |-> FALSE])
                              /\ logFile' = Len(handles) + 1
                              /\ InitLoggers(InitWriters(TRUE, Len(handles) + 1))
                       /\ dirs' = dirs1
                       /\ InitSeen(level, "nil")
       ELSE /\ InitLoggers(InitWriters(FALSE, 0))
            /\ UNCHANGED <<logFile, handles, fs, dirs, content>>
            /\ InitSeen(level, "nil")

(***************************************************************************)
(* CloseLogger.                                                            *)
(***************************************************************************)
CloseLogger ==
    /\ pc = "running"
    /\ handles' = IF logFile # 0 THEN CloseFile(handles, logFile) ELSE handles
    /\ ret' = [NoRet EXCEPT !.op = "Close"]
    /\ afterClose' = (afterClose \/ (logFile # 0 /\ ~handles[logFile].closed))
    /\ rot' = FALSE
    /\ UNCHANGED <<currentLevel, loggers, std, logFile, fs, dirs, content,
                   console, clock, pc>>
    /\ UNCHANGED <<everInit, renameFailed>>

(***************************************************************************)
(* The leveled logging operations.                                         *)
(***************************************************************************)
GetLogger(lgs, level) ==
    IF level \in Levels THEN lgs[level] ELSE lgs[LevelInfo]

\* logWithCallerInfo(level, format, v...) run with loggers lgs, handles hs,
\* console con and inodes cnt; callers is the stack below it (the leveled
\* operation, then that operation's caller).  A nil logger panics in Printf.
LogWithCallerInfo(lgs, hs, con, cnt, level, format, v, callers) ==
    IF level < currentLevel
    THEN [panicked |-> FALSE, emitted |-> 0, console |-> con, content |-> cnt]
    ELSE LET logger == GetLogger(lgs, level)
             c == Caller(<<Frame(LoggerGo, 137)>> \o callers, 2)
             msg == IF format = <<>> THEN Sprint(v) ELSE Sprintf(format, v)
             at == IF c.ok THEN (IF format = <<>> THEN 141 ELSE 144)
                           ELSE (IF format = <<>> THEN 148 ELSE 150)
             s == IF c.ok THEN <<LocField(Base(c.file), c.line), MsgField(msg)>>
                          ELSE <<MsgField(msg)>>
             line == LoggerLine(logger, clock, <<Frame(LoggerGo, at)>> \o callers, s)
             w == Write(logger, hs, con, cnt, line)
         IN  IF logger.nil
             THEN [panicked |-> TRUE, emitted |-> 0, console |-> con, content |-> cnt]
             ELSE [panicked |-> FALSE, emitted |-> Len(w.console) - Len(con),
                   console |-> w.console, content |-> w.content]

\* The calls the program makes: the unformatted and the formatted variant.
LogCalls ==
    { [formatted |-> FALSE, format |-> <<>>, args |-> <<Str(<<"x">>), Str(<<"y">>)>>],
      [formatted |-> TRUE, format |-> <<"%v", "=", "%v">>,
       args |-> <<Str(<<"k">>), Num(<<"1">>)>>] }

\* Debug, Debugf, Info, Infof, Warning, Warningf, Error, Errorf, Fatal, Fatalf,
\* called from site.
Log(level, call, site) ==
    /\ pc = "running"
    /\ LET r == LogWithCallerInfo(loggers, handles, console, content, level,
                    call.format, call.args,
                    <<Frame(LoggerGo, WrapperLine(level, call.formatted)), site>>)
       IN  /\ console' = r.console
           /\ content' = r.content
           /\ pc' = IF r.panicked THEN "panicked"
                    ELSE IF level = LevelFatal THEN "exited" ELSE "running"
           /\ ret' = [NoRet EXCEPT !.op = "Log", !.level = level,
                         !.formatted = call.formatted,
                         !.args = call.args, !.site = site,
                         !.emitted = r.emitted, !.panicked = r.panicked]
    /\ UNCHANGED <<currentLevel, loggers, std, logFile, handles, fs, dirs, clock>>
    /\ UNCHANGED <<everInit, afterClose, renameFailed, rot>>

(***************************************************************************)
(* RotateLogFile.                                                          *)
(***************************************************************************)
\* The writers RotateLogFile gives every logger (logger.go 239-240).
RotateWriters(f) == <<Stdout, f>>

\* SetOutput on the five loggers (logger.go 242-246).  logFile is non-nil
\* only once InitLogger has built them, so none is nil here.
SetOutputs(lgs, out) == [l \in Levels |-> [lgs[l] EXCEPT !.out = out]]

\* os.Rename and os.OpenFile each succeed or fail; the rename of a name that
\* has no entry fails.  site is the caller's position.
RotateLogFile(site) ==
    /\ pc = "running"
    /\ UNCHANGED <<currentLevel, dirs, clock, everInit, afterClose>>
    /\ IF logFile = 0
       THEN \* no log file to rotate
            /\ ret' = [NoRet EXCEPT !.op = "Rotate"]
            /\ UNCHANGED <<loggers, std, logFile, handles, fs, content, console, pc>>
            /\ UNCHANGED <<renameFailed, rot>>
       ELSE LET name == handles[logFile].name
                newPath == NewPath(name, clock)
                closed == CloseFile(handles, logFile)
                r0 == [NoRet EXCEPT !.op = "Rotate"]
            IN  \E renameOk \in BOOLEAN, openOk \in BOOLEAN :
                  IF ~renameOk \/ name \notin DOMAIN fs
                  THEN \* os.Rename failed
                       /\ ~renameOk /\ openOk
                       /\ handles' = closed
                       /\ ret' = [r0 EXCEPT !.err = "rename"]
                       /\ renameFailed' = TRUE
                       /\ rot' = FALSE
                       /\ UNCHANGED <<loggers, std, logFile, fs, content, console,
                                      pc>>
                  ELSE IF ~openOk
                  THEN \* os.OpenFile failed: logFile is assigned nil
                       /\ handles' = closed
                       /\ fs' = Rename(fs, name, newPath)
                       /\ logFile' = 0
                       /\ ret' = [r0 EXCEPT !.err = "reopen"]
                       /\ rot' = FALSE
                       /\ UNCHANGED <<loggers, std, content, console, pc,
                                      renameFailed>>
                  ELSE /\ LET o == OpenFile(Rename(fs, name, newPath), content,
                                            name, TRUE)
                              f == Len(handles) + 1
                              hs == Append(closed,
                                      [name |-> name, ino |-> o.ino, closed |-> FALSE])
                              lgs == SetOutputs(loggers, RotateWriters(f))
                              r == LogWithCallerInfo(lgs, hs, console, o.content,
                                     LevelInfo, <<>>,
                                     <<Str(<<"Log file rotated to">>), Str(newPath)>>,
                                     <<Frame(LoggerGo, WrapperLine(LevelInfo, FALSE)),
                                       Frame(LoggerGo, 249), site>>)
                          IN  /\ fs' = o.fs
                              /\ handles' = hs
                              /\ logFile' = f
                              /\ loggers' = lgs
                              /\ std' = [std EXCEPT !.out = RotateWriters(f)]
                              /\ console' = r.console
                              /\ content' = r.content
                              /\ pc' = IF r.panicked THEN "panicked" ELSE "running"
                              /\ ret' = [r0 EXCEPT !.rotated = TRUE,
                                                   !.emitted = r.emitted,
                                                   !.panicked = r.panicked]
                       /\ rot' = TRUE
                       /\ UNCHANGED renameFailed

(***************************************************************************)
(* The clock advances.                                                     *)
(***************************************************************************)
Tick ==
    /\ pc = "running"
    /\ clock' = clock + 1
    /\ UNCHANGED <<currentLevel, loggers, std, logFile, handles, fs, dirs,
                   content, console, pc>>
    /\ UNCHANGED seen

(***************************************************************************)
(* The calls a program makes, within the bounds of a run: the console      *)
(* holds fewer than maxLines lines before a call that may write, and fewer *)
(* than maxHandles files were opened before a call that may open one.      *)
(***************************************************************************)
Calls(thresholds, levels, calls, names, maxLines, maxHandles) ==
    \/ \E level \in thresholds, logToFile \in BOOLEAN, name \in names :
         /\ (logToFile /\ name # <<>>) => Len(handles) < maxHandles
         /\ InitLogger(level, logToFile, name)
    \/ CloseLogger
    \/ \E level \in levels, call \in calls, site \in CallSites :
         /\ Len(console) < maxLines
         /\ Log(level, call, site)
    \/ \E site \in CallSites :
         /\ logFile # 0 => Len(handles) < maxHandles /\ Len(console) < maxLines
         /\ RotateLogFile(site)
    \/ clock < MaxClock /\ Tick

Next == Calls(Levels, Levels, LogCalls, FileNames, MaxLines, MaxHandles)

Spec == Init /\ [][Next]_vars

\* The inputs of SpecRotate: a threshold that lets the Info line of a rotation
\* through and one that does not, one call that both thresholds let through,
\* one file name.
RotThresholds == {LevelInfo, LevelWarning}
RotLevels == {LevelWarning}
RotCalls == {c \in LogCalls : ~c.formatted}
RotNames == {DemoLog}

NextRotate == Calls(RotThresholds, RotLevels, RotCalls, RotNames, MaxRotLines, MaxRotHandles)

SpecRotate == Init /\ [][NextRotate]_vars

(***************************************************************************)
(* Properties.                                                             *)
(***************************************************************************)
\* A step that is a call of operation op (every call records itself in ret;
\* the clock advances in no call).
Called(op) == ret'.op = op /\ clock' = clock
\* The last line on the console.
LastLine(con) == con[Len(con)]
\* The writers of logger l are the console alone.
ConsoleOnly(l) == \A i \in 1..Len(l.out) : l.out[i] = Stdout
\* Some writer of logger l is file handle f.
WritesTo(l, f) == \E i \in 1..Len(l.out) : l.out[i] = f
\* Some InitLogger has built the loggers.
Built == \A l \in Levels : ~loggers[l].nil

\* C1: for every severity S and threshold T set by the last successful
\* Initialize, a logging call at S emits exactly one line if S >= T and nothing
\* if S < T; the threshold in force changes only in a successful Initialize
\* (Close, Rotate, logging calls and failed Initialize calls leave it alone).
C1_EmittedIffAtLeastThreshold ==
    [][ /\ (Called("Log") /\ Built) =>
              ret'.emitted = (IF ret'.level >= currentLevel THEN 1 ELSE 0)
        /\ (Built /\ clock' = clock /\ ~(ret'.op = "Init" /\ ret'.err = "nil")) =>
              currentLevel' = currentLevel ]_vars

\* C2: in every reachable state, if logFile is non-nil every level logger
\* writes to that handle, and if logFile is nil every level logger is
\* console-only.
C2_SinkMatchesFileHandle ==
    \A l \in Levels :
        /\ logFile # 0 => WritesTo(loggers[l], logFile)
        /\ logFile = 0 => ConsoleOnly(loggers[l])

\* C3: when Initialize returns an error the logger is console-only, not
\* half-configured (no file handle, no file writer in any level logger), and
\* a following Log call at or above the threshold writes its line to the
\* console and to no file.
C3_FailedInitLeavesConsoleOnly ==
    [][ /\ (Called("Init") /\ ret'.err # "nil") =>
              (logFile' = 0 /\ \A l \in Levels : ConsoleOnly(loggers'[l]))
        /\ (ret.op = "Init" /\ ret.err # "nil" /\ Called("Log")
              /\ ret'.level >= currentLevel) =>
              (/\ ~ret'.panicked
               /\ Len(console') = Len(console) + 1
               /\ content' = content) ]_vars

\* C4: before any call of Initialize the threshold is Info and the logger is
\* usable: an Info, Warning or Error call emits its line and completes
\* normally, and a Debug call is a no-op.
C4_UsableBeforeInit ==
    ~everInit =>
        /\ currentLevel = LevelInfo
        /\ (ret.op = "Log" /\ ret.level \in {LevelInfo, LevelWarning, LevelError}) =>
              (~ret.panicked /\ pc = "running" /\ ret.emitted = 1)
        /\ (ret.op = "Log" /\ ret.level = LevelDebug) =>
              (~ret.panicked /\ pc = "running" /\ ret.emitted = 0)

\* C5: after Close on a logger with an open file, and until the next
\* Initialize, the handle stays closed, every Rotate returns success without
\* renaming, creating or opening a file and without changing the writers, and
\* every Log writes to the console only.
C5_ClosedBehavesConsoleOnly ==
    [][ afterClose' =>
          /\ logFile' # 0 /\ handles'[logFile'].closed
          /\ Called("Rotate") =>
               (/\ ret'.err = "nil"
                /\ UNCHANGED <<fs, handles, logFile, loggers, std, content>>)
          /\ Called("Log") => content' = content ]_vars

\* The lines a call has put on the console.
Emitted == SubSeq(console', Len(console) + 1, Len(console'))
\* Every inode but i keeps its lines.
OthersKept(i) ==
    \A j \in DOMAIN content : j # i => content'[j] = content[j]

\* C6, first and third part: after a successful Rotate the archive name holds
\* exactly the lines the original path held, and while no Initialize, Close
\* or Rotate follows, each emitted line is appended to the file at the
\* original path and no other file changes.
C6_ArchiveAndLaterLines ==
    /\ (Called("Rotate") /\ ret'.rotated) =>
          LET name == handles[logFile].name
              newPath == NewPath(name, clock)
          IN  /\ newPath \in DOMAIN fs'
              /\ content'[fs'[newPath]] = content[fs[name]]
              /\ name \in DOMAIN fs'
              /\ fs'[name] # fs'[newPath]
    /\ (rot /\ rot' /\ Called("Log") /\ ret'.emitted = 1) =>
          LET name == handles[logFile].name
          IN  /\ name \in DOMAIN fs /\ fs' = fs
              /\ content'[fs[name]] = Append(content[fs[name]], LastLine(console'))
              /\ OthersKept(fs[name])

\* C6 as claimed: the original path is empty when Rotate returns.
C6_OriginalEmptyAfterRotate ==
    [][ /\ C6_ArchiveAndLaterLines
        /\ (Called("Rotate") /\ ret'.rotated) =>
              content'[fs'[handles[logFile].name]] = <<>> ]_vars

\* C6 as amended: when Rotate returns, the original path holds exactly what
\* the rotation itself emitted: its own Info line when the threshold is at
\* most Info, nothing otherwise.
C6_OriginalHoldsRotationLine ==
    [][ /\ C6_ArchiveAndLaterLines
        /\ (Called("Rotate") /\ ret'.rotated) =>
              /\ content'[fs'[handles[logFile].name]] = Emitted
              /\ Len(Emitted) = (IF currentLevel <= LevelInfo THEN 1 ELSE 0)
              /\ \A i \in 1..Len(Emitted) :
                    Emitted[i][1] = PrefixField(LevelPrefix(LevelInfo)) ]_vars

\* C6, the case: a rotation of a file that held a line has returned, having
\* emitted its Info line.
C6_Witness ==
    /\ ret.op = "Rotate" /\ ret.rotated /\ ret.emitted = 1
    /\ \E p \in DOMAIN fs : p # handles[logFile].name /\ Len(content[fs[p]]) > 0
    /\ Len(content[fs[handles[logFile].name]]) = 1

\* The textual forms of v with one space between each adjacent pair.
RECURSIVE JoinSpace(_)
JoinSpace(v) ==
    IF Len(v) = 0 THEN <<>>
    ELSE IF Len(v) = 1 THEN v[1].text
    ELSE v[1].text \o <<" ">> \o JoinSpace(Tail(v))

\* C7: the message an unformatted logging operation emits is its arguments'
\* textual forms with exactly one space between each adjacent pair.
C7_UnformattedJoinsWithSpaces ==
    (ret.op = "Log" /\ ~ret.formatted /\ ret.emitted = 1) =>
        LET line == LastLine(console)
        IN  line[Len(line)] = MsgField(JoinSpace(ret.args))

\* The lines on the console and in the files.
AllLines ==
    {console[i] : i \in 1..Len(console)}
    \cup UNION {{content[j][i] : i \in 1..Len(content[j])} : j \in DOMAIN content}
\* The positions inside logWithCallerInfo that call the logger.
HelperLines == {141, 144, 148, 150}

\* C8: every emitted line consists of exactly the fields prefix, date, time,
\* basename:line, message, in that order; no position of an internal helper
\* of the logger appears in it; and the line of a logging call carries the
\* prefix of the call's severity and the position of the call.
C8_LineFormat ==
    /\ \A line \in AllLines :
          /\ Len(line) = 5
          /\ [i \in 1..5 |-> line[i].kind] = <<"prefix", "date", "time", "loc", "msg">>
          /\ \A i \in 1..Len(line) :
                ~(line[i].kind = "loc" /\ line[i].text = <<Base(LoggerGo)>>
                  /\ line[i].n \in HelperLines)
    /\ (ret.op = "Log" /\ ret.emitted = 1) =>
          LET line == LastLine(console)
          IN  /\ line[1] = PrefixField(LevelPrefix(ret.level))
              /\ line[4] = LocField(Base(ret.site.file), ret.site.line)

\* C9: when the rename of Rotate fails, Rotate returns an error, touches no
\* file and no writer and leaves the old handle closed; and until the next
\* Initialize no file is opened and no line reaches a file.
C9_RenameFailureStaysConsoleOnly ==
    [][ /\ (Called("Rotate") /\ ret'.err = "rename") =>
              /\ UNCHANGED <<fs, content, logFile, loggers, std>>
              /\ handles'[logFile].closed
        /\ (renameFailed /\ renameFailed' /\ clock' = clock) =>
              /\ content' = content
              /\ handles' = handles ]_vars

\* C10: a successful Rotate archives to a name no earlier rotation used, so
\* every file archived before it is still there with the lines it had.
C10_ArchivesNeverOverwritten ==
    [][ (Called("Rotate") /\ ret'.rotated) =>
          LET name == handles[logFile].name
          IN  /\ NewPath(name, clock) \notin DOMAIN fs
              /\ \A p \in DOMAIN fs \ {name} :
                    /\ p \in DOMAIN fs'
                    /\ content'[fs'[p]] = content[fs[p]] ]_vars
====
